---- MODULE Spec2Model ----
(***************************************************************************)
(* Model of nrds_utils/fetch.py: the NAIP aerial image fetcher with its    *)
(* retry loop, the NLCD land-cover fetcher with its lookup-array remap,    *)
(* and the land-cover colorizer.  One call of one function is modelled per *)
(* behaviour; `op` records which function was called.                      *)
(***************************************************************************)
EXTENDS Integers, Sequences, FiniteSets, TLC

VARIABLES
    op,            \* which function this behaviour calls
    pc,            \* position inside the called function
    params,        \* the request parameter dict
    extras,        \* the caller's **kwargs
    args,          \* the call's positional and keyword arguments
    num_retries,   \* naip2016_from_orgeo: argument
    retries,       \* naip2016_from_orgeo: local counter
    img,           \* local `img` of the called function
    attempts,      \* log of the outcomes of requests.get + imread, oldest first
    todo,          \* colorize_landcover: values of np.unique(img) not yet visited
    cover_colors,  \* colorize_landcover: float work array, in thousandths
    ret            \* what the call returned or raised

vars == <<op, pc, params, extras, args, num_retries, retries, img, attempts, todo,
          cover_colors, ret>>

-----------------------------------------------------------------------------
(* Bounds of the model *)

MaxRetries == 3
MaxPixels == 3
MaxNlcdPixels == 2
MaxUnknown == 23

-----------------------------------------------------------------------------
(* Values *)

None == [kind |-> "None"]

Array(shape, data) == [kind |-> "array", shape |-> shape, data |-> data]

Returned(v) == [kind |-> "return", value |-> v]

Raised(e) == [kind |-> "raise", exc |-> e]

Running == [kind |-> "running"]

Prod(shape) ==
    IF Len(shape) = 0 THEN 1
    ELSE IF Len(shape) = 1 THEN shape[1]
    ELSE IF Len(shape) = 2 THEN shape[1] * shape[2]
    ELSE shape[1] * shape[2] * shape[3]

Range(s) == {s[i] : i \in DOMAIN s}

Max(S) == CHOOSE m \in S : \A x \in S : x <= m

-----------------------------------------------------------------------------
(* Request parameters *)

BBoxes == {<<0, 0, 1, 1>>, <<-2, 3, 40, 5>>}

NlcdBBox == <<-2, 3, 40, 5>>

Epsgs == {5070, 4326}

ExtraKeys == {"format", "token"}

ExtraVals == {"png"}

Kwargs == UNION {[K -> ExtraVals] : K \in SUBSET ExtraKeys}

JoinComma(bbox) ==
    ToString(bbox[1]) \o "," \o ToString(bbox[2]) \o "," \o
    ToString(bbox[3]) \o "," \o ToString(bbox[4])

NaipDefaults(bbox, width, height, epsg) ==
    [bbox |-> JoinComma(bbox),
     bboxSR |-> ToString(epsg),
     size |-> ToString(width) \o "," \o ToString(height),
     imageSR |-> ToString(epsg),
     format |-> "tiff",
     pixelType |-> "U8",
     noData |-> "None",
     noDataInterpretation |-> "esriNoDataMatchAny",
     interpolation |-> "+RSP_BilinearInterpolation",
     compression |-> "None",
     compressionQuality |-> "None",
     bandIds |-> "None",
     mosaicRule |-> "None",
     renderingRule |-> "None",
     f |-> "image"]

NlcdDefaults(bbox, width, height, layer, epsg) ==
    [bbox |-> JoinComma(bbox),
     crs |-> "epsg:" \o ToString(epsg),
     width |-> ToString(width),
     height |-> ToString(height),
     format |-> "image/geotiff",
     layers |-> layer]

UpdateKeepDefault(defaults, kwargs) ==
    [k \in DOMAIN defaults \cup DOMAIN kwargs |->
        IF k \in DOMAIN defaults THEN defaults[k] ELSE kwargs[k]]

Update(defaults, kwargs) ==
    [k \in DOMAIN defaults \cup DOMAIN kwargs |->
        IF k \in DOMAIN kwargs THEN kwargs[k] ELSE defaults[k]]

-----------------------------------------------------------------------------
(* naip2016_from_orgeo *)

\* one requests.get(BASE_URL, params=p) followed by imread: it raised e
Failure(p, e) == [ok |-> FALSE, params |-> p, exc |-> e]

\* one requests.get(BASE_URL, params=p) followed by imread: it decoded a
Success(p, a) == [ok |-> TRUE, params |-> p, img |-> a]

FetchErrors == {"TransportFailure", "DecodeFailure"}

LoopCondIgnoringImg(r, i) == r > 0

LoopCondInclusive(r, i) == r >= 0 /\ i = None

LoopCond(r, i) == r > 0 /\ i = None

DecrementByTwo(r) == r - 2

\* retries -= 1
Decrement(r) == r - 1

NaipCall(n, bbox, width, height, epsg, kwargs) ==
    /\ op = "naip" /\ pc = "start"
    /\ params' = Update(NaipDefaults(bbox, width, height, epsg), kwargs)
    /\ extras' = kwargs
    /\ args' = [bbox |-> bbox, width |-> width, height |-> height,
                epsg |-> epsg]
    /\ num_retries' = n
    /\ retries' = n
    /\ img' = None
    /\ pc' = "loop"
    /\ UNCHANGED <<op, attempts, todo, cover_colors, ret>>

NaipAttemptOk(bands) ==
    /\ op = "naip" /\ pc = "loop"
    /\ LoopCond(retries, img)
    /\ \E sample \in {0, 255} :
          LET shape == <<args.height, args.width, bands>>
              a == Array(shape, [i \in 1..Prod(shape) |-> sample])
          IN  /\ attempts' = Append(attempts, Success(params, a))
              /\ img' = a
    /\ UNCHANGED <<op, pc, params, extras, args, num_retries, retries, todo,
                   cover_colors, ret>>

NaipAttemptFail(e) ==
    /\ op = "naip" /\ pc = "loop"
    /\ LoopCond(retries, img)
    /\ attempts' = Append(attempts, Failure(params, e))
    /\ retries' = Decrement(retries)
    /\ UNCHANGED <<op, pc, params, extras, args, num_retries, img, todo,
                   cover_colors, ret>>

NaipReturn ==
    /\ op = "naip" /\ pc = "loop"
    /\ ~LoopCond(retries, img)
    /\ ret' = Returned(img)
    /\ pc' = "done"
    /\ UNCHANGED <<op, params, extras, args, num_retries, retries, img, attempts,
                   todo, cover_colors>>

-----------------------------------------------------------------------------
(* nlcd_from_mrlc *)

Layers == {"NLCD_2016_Land_Cover_L48"}

REMAPWetlandsAsCrops ==
    [c \in 1..21 |->
        IF c \in {1, 2} THEN 1
        ELSE IF c \in {3, 4, 5, 6} THEN 5
        ELSE IF c \in {7, 8} THEN 4
        ELSE IF c \in {9, 10, 11} THEN 2
        ELSE 3]

REMAP ==
    [c \in 1..21 |->
        IF c \in {1, 2} THEN 1
        ELSE IF c \in {3, 4, 5, 6} THEN 5
        ELSE IF c \in {7, 8} THEN 4
        ELSE IF c \in {9, 10, 11, 20} THEN 2
        ELSE 3]

\* mapping_ar, indexed from 0 as in numpy
MappingArIdentity == [i \in 0..Max(DOMAIN REMAP) |-> i]

\* k.max() + 1 with k of dtype uint8
MappingArSize == (Max(DOMAIN REMAP) % 256) + 1

MappingAr ==
    [i \in 0..(MappingArSize - 1) |->
        IF i \in DOMAIN REMAP THEN REMAP[i] % 256 ELSE 0]

NlcdPixels == 0..MaxUnknown \cup {255}

Shapes2D(n) == {s \in (1..n) \X (1..n) : s[1] * s[2] <= n}

Shapes3D(n) == {s \in (1..n) \X (1..n) \X (1..n) : s[1] * s[2] * s[3] <= n}

\* the flattened contents an array of the given shape can have
Datas(shape, values) == [1..Prod(shape) -> values]

NlcdCall(bbox, width, height, layer, epsg, kwargs) ==
    /\ op = "nlcd" /\ pc = "start"
    /\ params' = Update(NlcdDefaults(bbox, width, height, layer, epsg), kwargs)
    /\ extras' = kwargs
    /\ args' = [bbox |-> bbox, width |-> width, height |-> height,
                layer |-> layer, epsg |-> epsg]
    /\ pc' = "get"
    /\ UNCHANGED <<op, num_retries, retries, img, attempts, todo,
                   cover_colors, ret>>

NlcdGetFailSwallowed(e) ==
    /\ op = "nlcd" /\ pc = "get"
    /\ attempts' = Append(attempts, Failure(params, e))
    /\ ret' = Returned(None)
    /\ pc' = "done"
    /\ UNCHANGED <<op, params, extras, args, num_retries, retries, img, todo,
                   cover_colors>>

NlcdGetFail(e) ==
    /\ op = "nlcd" /\ pc = "get"
    /\ attempts' = Append(attempts, Failure(params, e))
    /\ ret' = Raised(e)
    /\ pc' = "done"
    /\ UNCHANGED <<op, params, extras, args, num_retries, retries, img, todo,
                   cover_colors>>

NlcdGetOk ==
    /\ op = "nlcd" /\ pc = "get"
    /\ \E d \in Datas(<<args.height, args.width>>, NlcdPixels) :
          LET a == Array(<<args.height, args.width>>, d)
          IN  /\ attempts' = Append(attempts, Success(params, a))
              /\ img' = a
    /\ pc' = "remap"
    /\ UNCHANGED <<op, params, extras, args, num_retries, retries, todo,
                   cover_colors, ret>>

NlcdRemap ==
    /\ op = "nlcd" /\ pc = "remap"
    /\ IF \E i \in DOMAIN img.data : img.data[i] \notin DOMAIN MappingAr
       THEN /\ ret' = Raised("IndexError")
            /\ img' = img
       ELSE /\ img' = Array(img.shape,
                            [i \in DOMAIN img.data |-> MappingAr[img.data[i]]])
            /\ ret' = Returned(img')
    /\ pc' = "done"
    /\ UNCHANGED <<op, params, extras, args, num_retries, retries, attempts, todo,
                   cover_colors>>

-----------------------------------------------------------------------------
(* colorize_landcover *)

\* COLOR_MAP, channels in thousandths
COLOR_MAP ==
    (0 :> <<1000, 1000, 1000>>) @@
    (1 :> <<0, 0, 1000>>) @@
    (2 :> <<0, 500, 0>>) @@
    (3 :> <<500, 1000, 500>>) @@
    (4 :> <<500, 375, 375>>) @@
    (5 :> <<0, 0, 0>>) @@
    (255 :> <<1000, 0, 0>>)

ColorValues == DOMAIN COLOR_MAP \cup {6}

RECURSIVE SortedSeq(_)
SortedSeq(S) ==
    IF S = {} THEN <<>>
    ELSE LET m == CHOOSE x \in S : \A y \in S : x <= y
         IN  <<m>> \o SortedSeq(S \ {m})

\* np.unique(img): the distinct values, ascending
Unique(a) == SortedSeq(Range(a.data))

\* np.zeros((img.shape[0], img.shape[1], 3)), flattened in C order
Zeros(a) == [i \in 1..(a.shape[1] * a.shape[2] * 3) |-> 0]

\* (x * 255).astype(np.uint8) of a float x given in thousandths
ScaleRounded(x) == ((x * 255 + 500) \div 1000) % 256

ScaleToUint8(x) == ((x * 255) \div 1000) % 256

LookupOrBlack(cov) ==
    IF cov \in DOMAIN COLOR_MAP
    THEN [ok |-> TRUE, color |-> COLOR_MAP[cov]]
    ELSE [ok |-> TRUE, color |-> <<0, 0, 0>>]

\* COLOR_MAP[cov], or the KeyError the dict raises
Lookup(cov) ==
    IF cov \in DOMAIN COLOR_MAP
    THEN [ok |-> TRUE, color |-> COLOR_MAP[cov]]
    ELSE [ok |-> FALSE, exc |-> "KeyError"]

\* positions of the flattened mask img == cov that are True
MaskTrue(a, cov) == {i \in DOMAIN a.data : a.data[i] = cov}

\* rank of i within the set S of positions, counted from 1
Rank(S, i) == Cardinality({j \in S : j <= i})

\* cover_colors[mask] = color, or the exception numpy raises
MaskAssign(cc, a, cov, color) ==
    LET m == MaskTrue(a, cov)
    IN  IF Len(a.shape) = 2
        THEN [ok |-> TRUE,
              cc |-> [i \in DOMAIN cc |->
                         IF ((i - 1) \div 3) + 1 \in m
                         THEN color[((i - 1) % 3) + 1] ELSE cc[i]]]
        ELSE IF a.shape[3] # 3
        THEN [ok |-> FALSE, exc |-> "IndexError"]
        ELSE IF Cardinality(m) # Len(color)
        THEN [ok |-> FALSE, exc |-> "ValueError"]
        ELSE [ok |-> TRUE,
              cc |-> [i \in DOMAIN cc |->
                         IF i \in m THEN color[Rank(m, i)] ELSE cc[i]]]

ColorizeShapes == Shapes2D(MaxPixels) \cup Shapes3D(MaxPixels)

ColorizeEnter(a) ==
    /\ img' = a
    /\ cover_colors' = Zeros(a)
    /\ todo' = Unique(a)
    /\ pc' = "colors"

ColorizeCall ==
    /\ op = "colorize" /\ pc = "start"
    /\ \E s \in ColorizeShapes :
          \E d \in Datas(s, ColorValues) : ColorizeEnter(Array(s, d))
    /\ UNCHANGED <<op, params, extras, args, num_retries, retries, attempts, ret>>

ColorizeVisit ==
    /\ pc = "colors" /\ todo # <<>>
    /\ LET cov == Head(todo)
           c == Lookup(cov)
       IN  IF ~c.ok
           THEN /\ ret' = Raised(c.exc)
                /\ pc' = "done"
                /\ UNCHANGED <<todo, cover_colors>>
           ELSE LET r == MaskAssign(cover_colors, img, cov, c.color)
                IN  IF r.ok
                    THEN /\ cover_colors' = r.cc
                         /\ todo' = Tail(todo)
                         /\ UNCHANGED <<pc, ret>>
                    ELSE /\ ret' = Raised(r.exc)
                         /\ pc' = "done"
                         /\ UNCHANGED <<todo, cover_colors>>
    /\ UNCHANGED <<op, params, extras, args, num_retries, retries, img, attempts>>

ColorizeReturn ==
    /\ pc = "colors" /\ todo = <<>>
    /\ ret' = Returned(Array(<<img.shape[1], img.shape[2], 3>>,
                             [i \in DOMAIN cover_colors |->
                                 ScaleToUint8(cover_colors[i])]))
    /\ pc' = "done"
    /\ UNCHANGED <<op, params, extras, args, num_retries, retries, img, attempts,
                   todo, cover_colors>>

\* the caller passes the raster nlcd_from_mrlc returned to colorize_landcover
PipeToColorize ==
    /\ op = "nlcd" /\ pc = "done" /\ ret.kind = "return"
    /\ op' = "nlcd+colorize"
    /\ ColorizeEnter(ret.value)
    /\ ret' = Running
    /\ UNCHANGED <<params, extras, args, num_retries, retries, attempts>>

-----------------------------------------------------------------------------
(* Specification *)

Ops == {"naip", "nlcd", "colorize"}

Init ==
    /\ op \in Ops
    /\ pc = "start"
    /\ params = <<>>
    /\ extras = <<>>
    /\ args = <<>>
    /\ num_retries = 0
    /\ retries = 0
    /\ img = None
    /\ attempts = <<>>
    /\ todo = <<>>
    /\ cover_colors = <<>>
    /\ ret = Running

NaipNext ==
    \/ \E n \in -1..MaxRetries, bbox \in BBoxes, epsg \in Epsgs,
          kwargs \in Kwargs :
          NaipCall(n, bbox, 2, 1, epsg, kwargs)
    \/ \E bands \in {3, 4} : NaipAttemptOk(bands)
    \/ \E e \in FetchErrors : NaipAttemptFail(e)
    \/ NaipReturn

NlcdNext ==
    \/ \E s \in Shapes2D(MaxNlcdPixels), layer \in Layers, kwargs \in Kwargs :
          NlcdCall(NlcdBBox, s[2], s[1], layer, 5070, kwargs)
    \/ \E e \in FetchErrors : NlcdGetFail(e)
    \/ NlcdGetOk
    \/ NlcdRemap

ColorizeNext ==
    \/ ColorizeCall
    \/ ColorizeVisit
    \/ ColorizeReturn
    \/ PipeToColorize

Next == NaipNext \/ NlcdNext \/ ColorizeNext

Spec == Init /\ [][Next]_vars

\* the retry loop alone; an attempt always ends, in a raster or an exception
NaipInit == Init /\ op = "naip"

NaipSpec == NaipInit /\ [][NaipNext]_vars /\ WF_vars(NaipNext)

-----------------------------------------------------------------------------
(* Properties *)

AllFailed == \A i \in DOMAIN attempts : ~attempts[i].ok

FirstSuccess == CHOOSE k \in DOMAIN attempts :
                   attempts[k].ok /\ \A j \in 1..(k - 1) : ~attempts[j].ok

\* the remap table as the specification states it, codes 0..21
TableTarget(c) ==
    CASE c \in {1, 2} -> 1
      [] c \in {3, 4, 5, 6} -> 5
      [] c \in {7, 8} -> 4
      [] c \in {9, 10, 11, 20} -> 2
      [] c \in {12, 13, 14, 15, 16, 17, 18, 19, 21} -> 3
      [] OTHER -> 0

\* the palette colours as the specification states them, already truncated
TruncatedColour(t) ==
    CASE t = 0 -> <<255, 255, 255>>
      [] t = 1 -> <<0, 0, 255>>
      [] t = 2 -> <<0, 127, 0>>
      [] t = 3 -> <<127, 255, 127>>
      [] t = 4 -> <<127, 95, 95>>
      [] t = 5 -> <<0, 0, 0>>
      [] t = 255 -> <<255, 0, 0>>

PaletteKeys == {0, 1, 2, 3, 4, 5, 255}

\* pixel p (counted from 1, row-major) of an (H, W, 3) array
PixelOf(a, p) == <<a.data[3 * (p - 1) + 1], a.data[3 * (p - 1) + 2],
                   a.data[3 * (p - 1) + 3]>>

ColorizeDone == op \in {"colorize", "nlcd+colorize"} /\ pc = "done"

NaipDone == op = "naip" /\ pc = "done"

NlcdDone == op = "nlcd" /\ pc = "done"

\* C1, as stated: when every attempt fails, exactly num_retries GETs are
\* issued, for every value of num_retries, and None is returned.
C1_ExactlyNumRetriesForEveryValue ==
    (NaipDone /\ AllFailed) =>
        /\ Len(attempts) = num_retries
        /\ ret = Returned(None)

\* C1, amended: when every attempt fails, exactly max(num_retries, 0) GETs
\* are issued (num_retries of them when num_retries >= 0, none when it is
\* negative), and the call returns None without raising.
C1_RetryBound ==
    (NaipDone /\ AllFailed) =>
        /\ Len(attempts) = Max({num_retries, 0})
        /\ ret = Returned(None)
        /\ ret.kind # "raise"

C1_Witness ==
    /\ NaipDone /\ AllFailed
    /\ num_retries = 3 /\ Len(attempts) = 3
    /\ ret = Returned(None)

\* C2, as stated: every decoded pixel is mapped by the table, codes 0 and
\* codes >= 22 going to 0.
C2_EveryCodeMapped ==
    (NlcdDone /\ attempts # <<>> /\ attempts[1].ok) =>
        /\ ret.kind = "return"
        /\ ret.value.shape = attempts[1].img.shape
        /\ \A i \in DOMAIN attempts[1].img.data :
              ret.value.data[i] = TableTarget(attempts[1].img.data[i])

\* C2, amended: a decoded raster whose codes are all in 0..21 is mapped pixel
\* by pixel by the table (0 going to 0); a decoded raster holding any code
\* >= 22 makes the lookup fail with an IndexError and no raster is returned.
C2_RemapTable ==
    (NlcdDone /\ attempts # <<>> /\ attempts[1].ok) =>
        LET src == attempts[1].img
        IN  IF \A i \in DOMAIN src.data : src.data[i] \in 0..21
            THEN /\ ret.kind = "return"
                 /\ ret.value.shape = src.shape
                 /\ \A i \in DOMAIN src.data :
                       ret.value.data[i] = TableTarget(src.data[i])
            ELSE ret = Raised("IndexError")

C2_Witness ==
    /\ NlcdDone
    /\ Len(attempts) = 1 /\ attempts[1].ok
    /\ attempts[1].img.data = <<20, 0>>
    /\ ret.kind = "return" /\ ret.value.data = <<2, 0>>

\* C3: a 2D raster of palette values is coloured pixel by pixel with the
\* truncated palette colour of the pixel's own class.
C3_ColorizeTotality ==
    (ColorizeDone /\ Len(img.shape) = 2 /\ Range(img.data) \subseteq PaletteKeys) =>
        /\ ret.kind = "return"
        /\ Len(ret.value.data) = 3 * Len(img.data)
        /\ \A p \in DOMAIN img.data :
              PixelOf(ret.value, p) = TruncatedColour(img.data[p])

C3_Witness ==
    /\ op = "colorize" /\ pc = "done"
    /\ img = Array(<<1, 3>>, <<4, 255, 2>>)
    /\ ret.kind = "return"
    /\ ret.value.data = <<127, 95, 95, 255, 0, 0, 0, 127, 0>>

\* C4, as stated: for a palette-safe raster of shape (H, W) or (H, W, C) the
\* colorizer returns an array of shape (H, W, 3).
C4_ShapePreserved ==
    (ColorizeDone /\ Range(img.data) \subseteq PaletteKeys) =>
        /\ ret.kind = "return"
        /\ ret.value.shape = <<img.shape[1], img.shape[2], 3>>
        /\ Len(ret.value.data) = img.shape[1] * img.shape[2] * 3

\* C5: every request carries the defaults overlaid by the caller's extra
\* parameters: an extra's value wins on a colliding key, a new key is added,
\* every other default is unchanged.
C5_ParameterOverride ==
    \A i \in DOMAIN attempts :
        LET sent == attempts[i].params
            defaults == IF op = "naip"
                        THEN NaipDefaults(args.bbox, args.width, args.height,
                                          args.epsg)
                        ELSE NlcdDefaults(args.bbox, args.width, args.height,
                                          args.layer, args.epsg)
        IN  /\ DOMAIN sent = DOMAIN defaults \cup DOMAIN extras
            /\ \A k \in DOMAIN extras : sent[k] = extras[k]
            /\ \A k \in DOMAIN defaults \ DOMAIN extras : sent[k] = defaults[k]

C5_Witness ==
    /\ op = "nlcd" /\ Len(attempts) = 1
    /\ DOMAIN extras = {"format", "token"}
    /\ attempts[1].params.format = "png"
    /\ attempts[1].params.token = "png"
    /\ attempts[1].params.crs = "epsg:5070"
    /\ attempts[1].params.bbox = "-2,3,40,5"

\* C6: the land-cover fetcher issues one GET and never a second; when the
\* request or the decode fails, that failure is raised to the caller.
C6_SingleGetPropagates ==
    (op \in {"nlcd", "nlcd+colorize"}) =>
        /\ Len(attempts) <= 1
        /\ pc \notin {"start", "get"} => Len(attempts) = 1
        /\ (attempts # <<>> /\ ~attempts[1].ok) =>
              /\ pc = "done"
              /\ ret = Raised(attempts[1].exc)

C6_Witness ==
    /\ NlcdDone
    /\ Len(attempts) = 1 /\ ~attempts[1].ok
    /\ ret = Raised("DecodeFailure")

C8_FirstSuccessReturns ==
    (op = "naip" /\ ~AllFailed) =>
        LET k == FirstSuccess
        IN  /\ 1 <= k /\ k <= num_retries
            /\ Len(attempts) = k
            /\ img = attempts[k].img
            /\ pc = "done" => /\ ret = Returned(attempts[k].img)
                              /\ ret.value # None

C8_Witness ==
    /\ NaipDone
    /\ num_retries = 3 /\ Len(attempts) = 2
    /\ ~attempts[1].ok /\ attempts[2].ok
    /\ ret = Returned(attempts[2].img)

Uniform(a, c) == \A i \in DOMAIN a.data : a.data[i] = c

\* C9: a decoded raster of only source code c, c in 0..21, comes back from
\* the land-cover fetcher as a raster of only the table's target for c, and
\* colorizing that never raises and gives an image of only the truncated
\* palette colour of that target.
C9_EndToEnd ==
    \A c \in 0..21 :
        (op \in {"nlcd", "nlcd+colorize"} /\ attempts # <<>> /\ attempts[1].ok
            /\ Uniform(attempts[1].img, c) /\ pc # "remap") =>
            /\ TableTarget(c) \in 0..5
            /\ img.shape = attempts[1].img.shape
            /\ Uniform(img, TableTarget(c))
            /\ ret.kind # "raise"
            /\ NlcdDone => ret = Returned(img)
            /\ ColorizeDone =>
                  /\ ret.kind = "return"
                  /\ ret.value.shape = <<img.shape[1], img.shape[2], 3>>
                  /\ \A p \in DOMAIN img.data :
                        PixelOf(ret.value, p) = TruncatedColour(TableTarget(c))

C9_Witness ==
    /\ op = "nlcd+colorize" /\ pc = "done"
    /\ attempts[1].img.data = <<9, 9>>
    /\ img.data = <<2, 2>>
    /\ ret.kind = "return"
    /\ ret.value.data = <<0, 127, 0, 0, 127, 0>>

\* C10: the retry loop ends; it issues at most max(num_retries, 0) requests;
\* the counter goes down by exactly one on a failed attempt and is left alone
\* by a successful one; it stays >= 0 when num_retries >= 0; with
\* num_retries <= 0 no request is issued and None is returned.
C10_RetryLoopTerminates ==
    /\ [](pc # "start" =>
            /\ Len(attempts) <= Max({num_retries, 0})
            /\ num_retries >= 0 => retries >= 0
            /\ (num_retries <= 0 /\ pc = "done") =>
                  attempts = <<>> /\ ret = Returned(None))
    /\ [][pc = "loop" =>
            /\ (Len(attempts') = Len(attempts) + 1
                   /\ ~attempts'[Len(attempts')].ok) => retries' = retries - 1
            /\ (Len(attempts') = Len(attempts) + 1
                   /\ attempts'[Len(attempts')].ok) => retries' = retries
            /\ attempts' = attempts => retries' = retries]_vars
    /\ <>(pc = "done")

C10_Witness ==
    /\ NaipDone
    /\ num_retries = 3 /\ Len(attempts) = 3 /\ retries = 1
    /\ ~attempts[1].ok /\ ~attempts[2].ok /\ attempts[3].ok

====
